---------------------------- MODULE Spec2Model ----------------------------
(***************************************************************************)
(* The BreachCase scraper's update-detection pipeline: main() of           *)
(* scraper/main.py with find_in_run_duplicate (scraper README),            *)
(* _compute_match_signals and the signal annotations of detect_update      *)
(* (update-detection design notes), and write_breach_update.               *)
(*                                                                         *)
(* Numbers with a fractional part are kept as integers: confidences in     *)
(* hundredths (0.7 is 70), similarity ratios in ten-thousandths            *)
(* (0.85 is 8500).                                                         *)
(***************************************************************************)
EXTENDS Integers, Sequences, FiniteSets, TLC

\* Python's None: as a number of records, as a breach id, as a string.
NoneInt == -1
NoneId == 0
NoneStr == "None"

(***************************************************************************)
(* Bounds of the model.                                                    *)
(***************************************************************************)
NumArticles == 2
MaxRuns == 2
MaxDb == 1
MaxScale == 11
MaxCandidates == 1
MaxRegistered == 2

(***************************************************************************)
(* Company names the extraction may return, and their characters.          *)
(***************************************************************************)
Names ==
    {"Qantas", "QANTAS  A", " qantas ai", "Acme", "Northwind Traders",
     "Northwind Traders Group"}

Chars ==
    [name \in Names |->
        CASE name = "Qantas" -> <<"Q", "a", "n", "t", "a", "s">>
          [] name = "QANTAS  A" -> <<"Q", "A", "N", "T", "A", "S", " ", " ", "A">>
          [] name = " qantas ai" -> <<" ", "q", "a", "n", "t", "a", "s", " ", "a", "i">>
          [] name = "Acme" -> <<"A", "c", "m", "e">>
          [] name = "Northwind Traders" ->
                <<"N", "o", "r", "t", "h", "w", "i", "n", "d", " ",
                  "T", "r", "a", "d", "e", "r", "s">>
          [] name = "Northwind Traders Group" ->
                <<"N", "o", "r", "t", "h", "w", "i", "n", "d", " ",
                  "T", "r", "a", "d", "e", "r", "s", " ", "G", "r", "o", "u", "p">>]

LowerOf ==
    ("Q" :> "q") @@ ("A" :> "a") @@ ("N" :> "n") @@ ("T" :> "t") @@ ("S" :> "s")
        @@ ("G" :> "g")

Lower(c) == IF c \in DOMAIN LowerOf THEN LowerOf[c] ELSE c

RECURSIVE CollapseFrom(_, _, _)
\* " ".join(s.split()): runs of blanks become one blank, none at either end.
CollapseFrom(s, i, pending) ==
    IF i > Len(s) THEN <<>>
    ELSE IF s[i] = " " THEN CollapseFrom(s, i + 1, TRUE)
    ELSE (IF pending THEN <<" ", s[i]>> ELSE <<s[i]>>) \o CollapseFrom(s, i + 1, FALSE)

StripLeft(s) == IF Len(s) > 0 /\ s[1] = " " THEN Tail(s) ELSE s

Normalize(s) == StripLeft(CollapseFrom([i \in 1..Len(s) |-> Lower(s[i])], 1, FALSE))

RECURSIVE MatchLen(_, _, _, _, _, _)
\* Length of the common block of a and b starting at a[i], b[j].
MatchLen(a, b, i, j, ahi, bhi) ==
    IF i > ahi \/ j > bhi THEN 0
    ELSE IF a[i] # b[j] THEN 0
    ELSE 1 + MatchLen(a, b, i + 1, j + 1, ahi, bhi)

\* SequenceMatcher.find_longest_match: the longest common block of
\* a[alo..ahi] and b[blo..bhi]; of the longest, the one starting earliest in
\* a, and of those the one starting earliest in b.
FindLongestMatch(a, b, alo, ahi, blo, bhi) ==
    LET starts == (alo..ahi) \X (blo..bhi)
        len(p) == MatchLen(a, b, p[1], p[2], ahi, bhi)
        best == CHOOSE p \in starts :
                    \A q \in starts :
                        \/ len(p) > len(q)
                        \/ len(p) = len(q) /\ p[1] < q[1]
                        \/ len(p) = len(q) /\ p[1] = q[1] /\ p[2] <= q[2]
    IN  <<best[1], best[2], len(best)>>

RECURSIVE MatchingChars(_, _, _, _, _, _)
\* Sum of the sizes of SequenceMatcher.get_matching_blocks.
MatchingChars(a, b, alo, ahi, blo, bhi) ==
    IF alo > ahi \/ blo > bhi THEN 0
    ELSE LET m == FindLongestMatch(a, b, alo, ahi, blo, bhi)
         IN  IF m[3] = 0 THEN 0
             ELSE m[3]
                  + MatchingChars(a, b, alo, m[1] - 1, blo, m[2] - 1)
                  + MatchingChars(a, b, m[1] + m[3], ahi, m[2] + m[3], bhi)

SimScale == 10000

\* SequenceMatcher(None, a, b).ratio() = 2.0 * M / T, in ten-thousandths.
Ratio(a, b) ==
    IF Len(a) + Len(b) = 0 THEN SimScale
    ELSE (2 * MatchingChars(a, b, 1, Len(a), 1, Len(b)) * SimScale) \div (Len(a) + Len(b))

SimilarityTable ==
    [p \in Names \X Names |-> Ratio(Normalize(Chars[p[1]]), Normalize(Chars[p[2]]))]

_company_similarity(a, b) == SimilarityTable[<<a, b>>]


(***************************************************************************)
(* Configuration and value domains.                                        *)
(***************************************************************************)
\* FUZZY_MATCH_THRESHOLD = 0.85, in ten-thousandths.
FUZZY_MATCH_THRESHOLD == 8500

\* update_check['confidence'] >= 0.7, in hundredths.
UPDATE_CONFIDENCE_THRESHOLD == 70

\* Confidence values a detect_update response may carry, in hundredths.
Confidences == {69, 70}

\* CLASSIFICATION_CONFIDENCE_THRESHOLD = 0.6, in hundredths.
CLASSIFICATION_CONFIDENCE_THRESHOLD == 60

\* What classify_article may return for an article.
Classifications == [is_breach : BOOLEAN, confidence : {59, 60}]

NoClassification == [is_breach |-> FALSE, confidence |-> NoneInt]

\* MAX_RETRIES = 3: the tries of one service call.
MAX_RETRIES == 3

\* What extract_breach_data may return for an article.
Extraction(company, records, vector) ==
    [company |-> company, records_affected |-> records, attack_vector |-> vector,
     summary |-> "Summary of the breach at " \o company]

Extractions ==
    {Extraction("Qantas", 10, "phishing"),
     Extraction("QANTAS  A", NoneInt, NoneStr),
     Extraction(" qantas ai", 10, "ransomware")}

\* The values of attack_vector the extraction prompt allows.
ATTACK_VECTORS ==
    {"phishing", "ransomware", "api_exploit", "insider", "supply_chain",
     "misconfiguration", "other"}

\* Responses of the service that validation rejects: an attack vector
\* outside the enumeration, no company.
InvalidExtractions ==
    {Extraction("Acme", 10, "zero-day"), Extraction(NoneStr, 10, "phishing")}

\* validate_extraction(data): the company is there and attack_vector is null
\* or one of the enumeration.
validate_extraction(data) ==
    /\ data.company # NoneStr
    /\ data.attack_vector \in ATTACK_VECTORS \cup {NoneStr}

\* An id the decision service may name although no breach carries it.
UnknownId == 99

Articles == 1..NumArticles

BreachRow(id, company, records, vector) ==
    [id |-> id, company |-> company, records_affected |-> records, attack_vector |-> vector]

\* What find_in_run_duplicate returns for None.
NoBreach == BreachRow(NoneId, NoneStr, NoneInt, NoneStr)

\* The breaches table before the first run: at most MaxDb rows.
StoredBreaches == {Extraction(" qantas ai", 11, "phishing")}

InitialBreaches ==
    UNION {[1..n -> StoredBreaches] : n \in 0..MaxDb}

InitialTable(rows) ==
    [i \in 1..Len(rows) |->
        BreachRow(i, rows[i].company, rows[i].records_affected, rows[i].attack_vector)]

ZeroStats ==
    [breaches_created |-> 0, updates_created |-> 0, duplicates_skipped |-> 0, errors |-> 0]

VARIABLES
    run,                \* number of runs of main() started so far
    pc,                 \* position of main(): idle, extract, match, detect, decide, write, done
    new_articles,       \* cache_manager.get_new_articles(recent_articles)
    idx,                \* position of the for loop in new_articles
    existing_breaches,  \* db_writer.get_existing_breaches(days=90), plus the in-run appends
    extracted,          \* ai_processor.extract_breach_data(article)
    candidates,         \* candidate_details handed to detect_update
    match_signals,      \* _compute_match_signals(extracted, candidate_details)
    request,            \* the candidates as the request of detect_update lists them
    update_check,       \* the forced in-run verdict or detect_update's response
    decision,           \* branch of main() chosen from update_check
    stats,              \* the run's counters
    breaches,           \* table breaches
    breach_updates,     \* table breach_updates
    processed_ids,      \* cache/processed_ids.txt
    detect_called,      \* detect_update was called for the current article
    outcome,            \* how the loop body of the last article ended
    enable_classification,  \* ENABLE_CLASSIFICATION as the run read it
    classification,     \* ai_processor.classify_article(article)
    attempts,           \* failed tries of the service call under way
    error               \* the exception the loop body of the last article ended with

vars == <<run, pc, new_articles, idx, existing_breaches, extracted, candidates,
          match_signals, request, update_check, decision, stats, breaches, breach_updates,
          processed_ids, detect_called, outcome, enable_classification, classification,
          attempts, error>>

db == <<breaches, breach_updates>>
locals ==
    <<extracted, candidates, match_signals, request, update_check, decision,
      detect_called>>
stages == <<enable_classification, classification, attempts, error>>

(***************************************************************************)
(* find_in_run_duplicate: the first breach of the list whose company       *)
(* similarity reaches the threshold, or None.                              *)
(***************************************************************************)
RECURSIVE FirstMatchFrom_strict(_, _, _)
\* A similarity equal to the threshold is not taken for a match.
FirstMatchFrom_strict(company, list, i) ==
    IF i > Len(list) THEN NoBreach
    ELSE IF _company_similarity(company, list[i].company) > FUZZY_MATCH_THRESHOLD
         THEN list[i]
         ELSE FirstMatchFrom_strict(company, list, i + 1)

RECURSIVE FirstMatchFrom(_, _, _)
FirstMatchFrom(company, list, i) ==
    IF i > Len(list) THEN NoBreach
    ELSE IF _company_similarity(company, list[i].company) >= FUZZY_MATCH_THRESHOLD
         THEN list[i]
         ELSE FirstMatchFrom(company, list, i + 1)

\* A loop that keeps the last match instead of returning the first.
find_in_run_duplicate_last(company, list) ==
    LET hits == {i \in 1..Len(list) :
                    _company_similarity(company, list[i].company) >= FUZZY_MATCH_THRESHOLD}
    IN  IF hits = {} THEN NoBreach
        ELSE list[CHOOSE i \in hits : \A j \in hits : j <= i]

find_in_run_duplicate(company, list) == FirstMatchFrom(company, list, 1)

(***************************************************************************)
(* _compute_match_signals.  None and 0 are both falsy in                   *)
(* `if extracted_records and existing_records`; abs(a - b) / larger <=     *)
(* 0.10 is decided in integers as 10 * |a - b| <= larger.                  *)
(***************************************************************************)
TruthyInt(v) == v # NoneInt /\ v # 0

TruthyStr(v) == v # NoneStr /\ v # ""

\* The signals are True, False or None.
SigTrue == "True"
SigFalse == "False"
SigNone == "None"

Bool(b) == IF b THEN SigTrue ELSE SigFalse

Abs(n) == IF n < 0 THEN -n ELSE n

Max(a, b) == IF a >= b THEN a ELSE b

\* A missing count read as 0 instead of being left out of the comparison.
records_match_missing_as_zero(extracted_records, existing_records) ==
    LET a == IF extracted_records = NoneInt THEN 0 ELSE extracted_records
        b == IF existing_records = NoneInt THEN 0 ELSE existing_records
    IN  IF a = 0 /\ b = 0 THEN SigNone ELSE Bool(10 * Abs(a - b) <= Max(a, b))

records_match(extracted_records, existing_records) ==
    IF TruthyInt(extracted_records) /\ TruthyInt(existing_records)
    THEN Bool(10 * Abs(extracted_records - existing_records)
                <= Max(extracted_records, existing_records))
    ELSE SigNone

attack_vector_match(extracted_vector, existing_vector) ==
    IF TruthyStr(extracted_vector) /\ TruthyStr(existing_vector)
    THEN Bool(extracted_vector = existing_vector)
    ELSE SigNone

Signal(ex, candidate) ==
    [records_match |-> records_match(ex.records_affected, candidate.records_affected),
     attack_vector_match |-> attack_vector_match(ex.attack_vector, candidate.attack_vector),
     existing_records |-> candidate.records_affected,
     existing_attack_vector |-> candidate.attack_vector]

\* Candidates without an id are skipped; a later candidate with the same id
\* overwrites an earlier one.
_compute_match_signals(ex, cands) ==
    LET bids == {cands[i].id : i \in 1..Len(cands)} \ {NoneId}
        last(bid) == CHOOSE i \in 1..Len(cands) :
                        /\ cands[i].id = bid
                        /\ \A j \in 1..Len(cands) : cands[j].id = bid => j <= i
    IN  [bid \in bids |-> Signal(ex, cands[last(bid)])]

(***************************************************************************)
(* The loop of detect_update that lists the candidates in the request: of  *)
(* each one the structural signals that are True or False, as MATCH or     *)
(* DIFFER, and the high prior for DUPLICATE_SOURCE when both are True.     *)
(***************************************************************************)
\* MAX_EXISTING_BREACHES_CONTEXT (default: 50)
MAX_EXISTING_BREACHES_CONTEXT == 50

\* signal_parts for one signal.
SignalPart(name, value) ==
    IF value = SigTrue THEN <<name \o " MATCH">>
    ELSE IF value = SigFalse THEN <<name \o " DIFFER">>
    ELSE <<>>

\* The high prior is stated when one of the signals is True.
Annotation_either(breach, signals) ==
    LET bid == breach.id
        known == DOMAIN signals # {} /\ bid # NoneId /\ bid \in DOMAIN signals
        sig == signals[bid]
        signal_parts == SignalPart("records", sig.records_match)
                            \o SignalPart("attack_vector", sig.attack_vector_match)
    IN  [id |-> bid,
         signal_parts |-> IF known THEN signal_parts ELSE <<>>,
         high_prior |-> /\ known
                        /\ signal_parts # <<>>
                        /\ \/ sig.records_match = SigTrue
                           \/ sig.attack_vector_match = SigTrue]

\* breach_summary of one candidate: its id, the signal parts and whether the
\* high prior line is added.
Annotation(breach, signals) ==
    LET bid == breach.id
        known == DOMAIN signals # {} /\ bid # NoneId /\ bid \in DOMAIN signals
        sig == signals[bid]
        signal_parts == SignalPart("records", sig.records_match)
                            \o SignalPart("attack_vector", sig.attack_vector_match)
    IN  [id |-> bid,
         signal_parts |-> IF known THEN signal_parts ELSE <<>>,
         high_prior |-> /\ known
                        /\ signal_parts # <<>>
                        /\ sig.records_match = SigTrue
                        /\ sig.attack_vector_match = SigTrue]

\* for breach in existing_breaches[:MAX_EXISTING_BREACHES_CONTEXT]
breaches_list(existing, signals) ==
    LET n == IF Len(existing) <= MAX_EXISTING_BREACHES_CONTEXT THEN Len(existing)
             ELSE MAX_EXISTING_BREACHES_CONTEXT
    IN  [i \in 1..n |-> Annotation(existing[i], signals)]

(***************************************************************************)
(* Values of the locals of main().                                         *)
(***************************************************************************)
NoExtraction == Extraction(NoneStr, NoneInt, NoneStr)

NoUpdateCheck == [is_update |-> FALSE, related_breach_id |-> NoneId, confidence |-> 0]

\* update_check of the in-run branch; it carries no is_duplicate_source key.
ForcedUpdate(breach) ==
    [is_update |-> TRUE, related_breach_id |-> breach.id, confidence |-> 100]

\* update_check when no candidate is left to compare with: a new breach.
NewBreachCheck ==
    [is_update |-> FALSE, is_duplicate_source |-> FALSE,
     related_breach_id |-> NoneId, confidence |-> 100]

\* The update_summary of a response: null, empty, or a note on what is new.
UpdateSummaries == {NoneStr, "", "Record count revised."}

\* d.get(key, default)
Get(d, key, default) == IF key \in DOMAIN d THEN d[key] ELSE default

\* What detect_update may return for the candidates it was given.
GenuineUpdates(cands) ==
    [is_update : {TRUE}, is_duplicate_source : {FALSE},
     related_breach_id : {NoneId, UnknownId} \cup {cands[i].id : i \in 1..Len(cands)},
     confidence : Confidences,
     update_summary : UpdateSummaries]

\* With is_duplicate_source set main() reads no other field; is_update is
\* kept free.
DuplicateSources(cands) ==
    [is_update : BOOLEAN, is_duplicate_source : {TRUE},
     related_breach_id : {cands[1].id},
     confidence : Confidences,
     update_summary : {NoneStr}]

NewBreaches ==
    [is_update : {FALSE}, is_duplicate_source : {FALSE},
     related_breach_id : {NoneId},
     confidence : Confidences,
     update_summary : {NoneStr}]

Responses(cands) == GenuineUpdates(cands) \cup DuplicateSources(cands) \cup NewBreaches

\* The candidate lists the storage pre-filter may hand over: sub-lists of
\* the existing breaches, in order, of at most MaxCandidates rows.
CandidateLists(list) ==
    {<<>>} \cup
    UNION {{[k \in 1..n |-> list[f[k]]] :
                f \in {g \in [1..n -> 1..Len(list)] :
                          \A a, b \in 1..n : a < b => g[a] < g[b]}} :
           n \in 1..MaxCandidates}

BreachIds == {breaches[i].id : i \in 1..Len(breaches)}

(***************************************************************************)
(* main(), steps 2 to 5: the articles not processed yet and the existing   *)
(* breaches.                                                               *)
(***************************************************************************)
\* The processed list is not consulted.
get_new_articles_unfiltered(articles) == articles

get_new_articles(articles) ==
    SelectSeq(articles, LAMBDA url : url \notin processed_ids)

\* The classification runs whatever the setting.
FirstStage_always_classifies(enable) == "classify"

\* The first stage of an article: the classification when it is enabled.
FirstStage(enable) == IF enable THEN "classify" ELSE "extract"

AfterArticle(i) ==
    IF i > Len(new_articles) THEN "done" ELSE FirstStage(enable_classification)

\* One run of main() with ENABLE_CLASSIFICATION = enable.
Run(enable) ==
    /\ pc \in {"idle", "done", "aborted"}
    /\ run < MaxRuns
    /\ run' = run + 1
    /\ new_articles' = get_new_articles([i \in 1..NumArticles |-> i])
    /\ existing_breaches' = breaches
    /\ stats' = ZeroStats
    /\ idx' = 1
    /\ pc' = IF Len(new_articles') = 0 THEN "done" ELSE FirstStage(enable)
    /\ enable_classification' = enable
    /\ classification' = NoClassification
    /\ attempts' = 0
    /\ error' = "none"
    /\ outcome' = "none"
    /\ extracted' = NoExtraction
    /\ candidates' = <<>>
    /\ match_signals' = <<>>
    /\ request' = <<>>
    /\ update_check' = NoUpdateCheck
    /\ decision' = NoneStr
    /\ detect_called' = FALSE
    /\ UNCHANGED <<db, processed_ids>>

\* main() as the README gives it: no classification stage.
StartRun == Run(FALSE)

(***************************************************************************)
(* except Exception: log, count the error, continue with the next article. *)
(* save_processed_id is not reached.                                       *)
(***************************************************************************)
\* The exception ends the loop instead of continuing it.
HandleError_aborts ==
    /\ stats' = [stats EXCEPT !.errors = @ + 1]
    /\ idx' = idx + 1
    /\ pc' = "done"
    /\ outcome' = "failed"
    /\ UNCHANGED <<run, new_articles, processed_ids>>

\* save_processed_id in a finally clause: reached on an error too.
HandleError_marks_processed ==
    /\ stats' = [stats EXCEPT !.errors = @ + 1]
    /\ idx' = idx + 1
    /\ pc' = AfterArticle(idx + 1)
    /\ outcome' = "failed"
    /\ processed_ids' = processed_ids \cup {new_articles[idx]}
    /\ UNCHANGED <<run, new_articles>>

HandleError ==
    /\ stats' = [stats EXCEPT !.errors = @ + 1]
    /\ idx' = idx + 1
    /\ pc' = AfterArticle(idx + 1)
    /\ outcome' = "failed"
    /\ UNCHANGED <<run, new_articles, processed_ids>>

(***************************************************************************)
(* extracted = ai_processor.extract_breach_data(article)                   *)
(***************************************************************************)
Extract ==
    /\ pc = "extract"
    /\ \E data \in Extractions \cup InvalidExtractions :
          /\ validate_extraction(data)
          /\ extracted' = data
    /\ attempts' = 0
    /\ error' = "none"
    /\ UNCHANGED <<enable_classification, classification>>
    /\ update_check' = NoUpdateCheck
    /\ candidates' = <<>>
    /\ match_signals' = <<>>
    /\ request' = <<>>
    /\ decision' = NoneStr
    /\ detect_called' = FALSE
    /\ outcome' = "none"
    /\ pc' = "match"
    /\ UNCHANGED <<run, new_articles, idx, existing_breaches, stats, db, processed_ids>>

\* The response does not pass validate_extraction: the data is not handed to
\* the decision.
ExtractFails_proceeds ==
    /\ pc = "extract"
    /\ \E data \in Extractions \cup InvalidExtractions :
          /\ ~validate_extraction(data)
          /\ extracted' = data
    /\ update_check' = NoUpdateCheck
    /\ candidates' = <<>>
    /\ match_signals' = <<>>
    /\ request' = <<>>
    /\ decision' = NoneStr
    /\ detect_called' = FALSE
    /\ outcome' = "none"
    /\ pc' = "match"
    /\ attempts' = 0
    /\ error' = "none"
    /\ UNCHANGED <<run, new_articles, idx, existing_breaches, stats, db, processed_ids,
                   enable_classification, classification>>

\* The response does not pass validate_extraction: the call raises, or
\* returns None and extracted['company'] raises.
ExtractFails ==
    /\ pc = "extract"
    /\ \E data \in Extractions \cup InvalidExtractions : ~validate_extraction(data)
    /\ error' = "ValidationError"
    /\ attempts' = 0
    /\ UNCHANGED <<enable_classification, classification>>
    /\ extracted' = NoExtraction
    /\ update_check' = NoUpdateCheck
    /\ candidates' = <<>>
    /\ match_signals' = <<>>
    /\ request' = <<>>
    /\ decision' = NoneStr
    /\ detect_called' = FALSE
    /\ HandleError
    /\ UNCHANGED <<existing_breaches, db>>

(***************************************************************************)
(* in_run_match = find_in_run_duplicate(extracted['company'],              *)
(* existing_breaches); a match forces the update without a call of         *)
(* detect_update.                                                          *)
(***************************************************************************)
in_run_match == find_in_run_duplicate(extracted.company, existing_breaches)

MatchInRun ==
    /\ pc = "match"
    /\ UNCHANGED stages
    /\ in_run_match # NoBreach
    /\ update_check' = ForcedUpdate(in_run_match)
    /\ pc' = "decide"
    /\ UNCHANGED <<run, new_articles, idx, existing_breaches, extracted, candidates,
                   match_signals, request,
                   decision, stats, db, processed_ids, detect_called,
                   outcome>>

(***************************************************************************)
(* No in-run match: the candidates are fetched and compared.  With no      *)
(* candidate the article is a new breach and detect_update is not called.  *)
(***************************************************************************)
NoCandidates ==
    /\ pc = "match"
    /\ UNCHANGED stages
    /\ in_run_match = NoBreach
    /\ candidates' = <<>>
    /\ update_check' = NewBreachCheck
    /\ pc' = "decide"
    /\ UNCHANGED <<run, new_articles, idx, existing_breaches, extracted, match_signals,
                   request,
                   decision, stats, db, processed_ids, detect_called, outcome>>

FetchCandidates ==
    /\ pc = "match"
    /\ UNCHANGED stages
    /\ in_run_match = NoBreach
    /\ \E cands \in CandidateLists(existing_breaches) \ {<<>>} :
          /\ candidates' = cands
          /\ match_signals' = _compute_match_signals(extracted, cands)
    /\ pc' = "detect"
    /\ UNCHANGED <<run, new_articles, idx, existing_breaches, extracted, request,
                   update_check, decision, stats, db, processed_ids, detect_called,
                   outcome>>

(***************************************************************************)
(* update_check = ai_processor.detect_update(article, candidate_details,   *)
(* match_signals)                                                          *)
(***************************************************************************)
DetectUpdate ==
    /\ pc = "detect"
    /\ attempts' = 0
    /\ UNCHANGED <<enable_classification, classification, error>>
    /\ request' = breaches_list(candidates, match_signals)
    /\ \E response \in Responses(candidates) : update_check' = response
    /\ detect_called' = TRUE
    /\ pc' = "decide"
    /\ UNCHANGED <<run, new_articles, idx, existing_breaches, extracted, candidates,
                   match_signals, decision, stats, db, processed_ids, outcome>>

\* detect_update raises, or returns None and update_check.get raises.
DetectFails ==
    /\ pc = "detect"
    /\ detect_called' = TRUE
    /\ error' = "ValidationError"
    /\ attempts' = 0
    /\ UNCHANGED <<enable_classification, classification>>
    /\ HandleError
    /\ UNCHANGED <<existing_breaches, extracted, candidates, match_signals, request,
                   update_check,
                   decision, db>>

(***************************************************************************)
(* is_duplicate, is_genuine_update and the branch they select.             *)
(***************************************************************************)
\* The flag read under a key the response never carries.
is_duplicate_wrong_key(uc) == Get(uc, "is_duplicate", FALSE)

is_duplicate(uc) == Get(uc, "is_duplicate_source", FALSE)

\* The duplicate flag is not consulted.
is_genuine_update_ignores_duplicate(uc) ==
    uc.is_update /\ uc.confidence >= UPDATE_CONFIDENCE_THRESHOLD

\* The confidence threshold left out.
is_genuine_update_any_confidence(uc) == uc.is_update /\ ~is_duplicate(uc)

\* A strict comparison with the threshold.
is_genuine_update_strict(uc) ==
    uc.is_update /\ uc.confidence > UPDATE_CONFIDENCE_THRESHOLD /\ ~is_duplicate(uc)

is_genuine_update(uc) ==
    uc.is_update /\ uc.confidence >= UPDATE_CONFIDENCE_THRESHOLD /\ ~is_duplicate(uc)

\* The else branch skips the article instead of writing a new breach.
Branch_else_skips(uc) ==
    IF is_genuine_update(uc) THEN "AppendUpdate" ELSE "Discard"

Branch(uc) ==
    IF is_genuine_update(uc) THEN "AppendUpdate"
    ELSE IF is_duplicate(uc) THEN "Discard"
    ELSE "CreateNew"

\* A candidate whose two signals are True.
BothMatch(signals, bid) ==
    /\ bid \in DOMAIN signals
    /\ signals[bid].records_match = SigTrue
    /\ signals[bid].attack_vector_match = SigTrue

\* Matching signals of the related breach overrule the verdict.
Decide_signals_overrule ==
    /\ pc = "decide"
    /\ UNCHANGED stages
    /\ decision' = IF BothMatch(match_signals, update_check.related_breach_id)
                   THEN "Discard"
                   ELSE Branch(update_check)
    /\ pc' = "write"
    /\ UNCHANGED <<run, new_articles, idx, existing_breaches, extracted, candidates,
                   match_signals, request,
                   update_check, stats, db, processed_ids, detect_called,
                   outcome>>

Decide ==
    /\ pc = "decide"
    /\ UNCHANGED stages
    /\ decision' = Branch(update_check)
    /\ pc' = "write"
    /\ UNCHANGED <<run, new_articles, idx, existing_breaches, extracted, candidates,
                   match_signals, request,
                   update_check, stats, db, processed_ids, detect_called,
                   outcome>>

(***************************************************************************)
(* The three branches, each followed by save_processed_id(article['url']). *)
(***************************************************************************)
\* The urls are saved when the run ends, not article by article.
Processed_not_saved ==
    /\ processed_ids' = processed_ids
    /\ idx' = idx + 1
    /\ pc' = AfterArticle(idx + 1)
    /\ UNCHANGED <<run, new_articles, locals>>

\* The loop does not move on after the write.
Processed_stays ==
    /\ processed_ids' = processed_ids \cup {new_articles[idx]}
    /\ UNCHANGED <<run, new_articles, locals, idx, pc>>

Processed ==
    /\ processed_ids' = processed_ids \cup {new_articles[idx]}
    /\ idx' = idx + 1
    /\ pc' = AfterArticle(idx + 1)
    /\ UNCHANGED <<run, new_articles, locals>>

\* breach_updates.breach_id is nullable and references breaches(id).
UpdateAccepted(breach_id) == breach_id = NoneId \/ breach_id \in BreachIds

\* article['title']
article_title(url) == "Title of article " \o ToString(url)

\* 'description' before the change: the summary of the extraction.
description_of_summary(content, update_data, url) ==
    Get(update_data, "summary", article_title(url))

\* 'description': content or article.get('title', 'Update')
description(content, update_data, url) ==
    IF TruthyStr(content) THEN content ELSE article_title(url)

UpdateRow(breach_id, url, text) ==
    [breach_id |-> breach_id, source_url |-> url, description |-> text]

\* db.write_breach_update(extracted, update_check['related_breach_id'],
\* article, content=update_check.get('update_summary'))
write_breach_update(update_data, breach_id, url, content) ==
    UpdateRow(breach_id, url, description(content, update_data, url))

\* The update also brings the figures of the breach up to date.
WriteUpdate_merges ==
    /\ pc = "write"
    /\ UNCHANGED stages
    /\ decision = "AppendUpdate"
    /\ UpdateAccepted(update_check.related_breach_id)
    /\ breach_updates' =
          Append(breach_updates,
                 write_breach_update(extracted, update_check.related_breach_id,
                                     new_articles[idx],
                                     Get(update_check, "update_summary", NoneStr)))
    /\ breaches' =
          [i \in 1..Len(breaches) |->
              IF breaches[i].id = update_check.related_breach_id
              THEN [breaches[i] EXCEPT !.records_affected = extracted.records_affected,
                                       !.attack_vector = extracted.attack_vector]
              ELSE breaches[i]]
    /\ stats' = [stats EXCEPT !.updates_created = @ + 1]
    /\ outcome' = "updated"
    /\ Processed
    /\ UNCHANGED existing_breaches

\* For UPDATE: insert into breach_updates.  Of the breach itself the
\* transaction touches updated_at only, which is not among the columns that
\* BreachRow carries.
WriteUpdate ==
    /\ pc = "write"
    /\ UNCHANGED stages
    /\ decision = "AppendUpdate"
    /\ UpdateAccepted(update_check.related_breach_id)
    /\ breach_updates' =
          Append(breach_updates,
                 write_breach_update(extracted, update_check.related_breach_id,
                                     new_articles[idx],
                                     Get(update_check, "update_summary", NoneStr)))
    /\ stats' = [stats EXCEPT !.updates_created = @ + 1]
    /\ outcome' = "updated"
    /\ Processed
    /\ UNCHANGED <<breaches, existing_breaches>>

\* The skipped duplicate is not counted.
SkipDuplicate_uncounted ==
    /\ pc = "write"
    /\ UNCHANGED stages
    /\ decision = "Discard"
    /\ outcome' = "discarded"
    /\ Processed
    /\ UNCHANGED <<stats, db, existing_breaches>>

SkipDuplicate ==
    /\ pc = "write"
    /\ UNCHANGED stages
    /\ decision = "Discard"
    /\ stats' = [stats EXCEPT !.duplicates_skipped = @ + 1]
    /\ outcome' = "discarded"
    /\ Processed
    /\ UNCHANGED <<db, existing_breaches>>

\* The new breach is not appended to existing_breaches.
WriteNew_not_appended ==
    /\ pc = "write"
    /\ UNCHANGED stages
    /\ decision = "CreateNew"
    /\ breaches' = Append(breaches,
                          BreachRow(Len(breaches) + 1, extracted.company,
                                    extracted.records_affected, extracted.attack_vector))
    /\ stats' = [stats EXCEPT !.breaches_created = @ + 1]
    /\ outcome' = "created"
    /\ Processed
    /\ UNCHANGED <<breach_updates, existing_breaches>>

WriteNew ==
    /\ pc = "write"
    /\ UNCHANGED stages
    /\ decision = "CreateNew"
    /\ LET breach_id == Len(breaches) + 1
           row == BreachRow(breach_id, extracted.company, extracted.records_affected,
                            extracted.attack_vector)
       IN  /\ breaches' = Append(breaches, row)
           /\ existing_breaches' = Append(existing_breaches, row)
    /\ stats' = [stats EXCEPT !.breaches_created = @ + 1]
    /\ outcome' = "created"
    /\ Processed
    /\ UNCHANGED breach_updates

\* The breach is put on the list before the write, and stays there when
\* the write fails.
StorageFails_registers ==
    /\ pc = "write"
    /\ decision \in {"AppendUpdate", "CreateNew"}
    /\ error' = "StorageError"
    /\ UNCHANGED <<enable_classification, classification, attempts>>
    /\ HandleError
    /\ existing_breaches' =
          IF decision = "CreateNew"
          THEN Append(existing_breaches,
                      BreachRow(Len(breaches) + 1, extracted.company,
                                extracted.records_affected, extracted.attack_vector))
          ELSE existing_breaches
    /\ UNCHANGED <<db, locals>>

\* db_writer raises: the write is rolled back.
StorageFails ==
    /\ pc = "write"
    /\ decision \in {"AppendUpdate", "CreateNew"}
    /\ error' = "StorageError"
    /\ UNCHANGED <<enable_classification, classification, attempts>>
    /\ HandleError
    /\ UNCHANGED <<db, existing_breaches, locals>>

(***************************************************************************)
(* Stage 1, when ENABLE_CLASSIFICATION is set: the article is classified   *)
(* and skipped unless it is a breach article with a confidence of at least *)
(* CLASSIFICATION_CONFIDENCE_THRESHOLD.                                    *)
(***************************************************************************)
\* The gate without the threshold.
is_breach_article_any_confidence(result) == result.is_breach

is_breach_article(result) ==
    result.is_breach /\ result.confidence >= CLASSIFICATION_CONFIDENCE_THRESHOLD

\* A skipped article is not counted; whether its url is saved as processed
\* is left open.
Classify ==
    /\ pc = "classify"
    /\ \E result \in Classifications :
          /\ classification' = result
          /\ IF is_breach_article(result)
             THEN /\ pc' = "extract"
                  /\ outcome' = "none"
                  /\ UNCHANGED <<idx, processed_ids>>
             ELSE /\ pc' = AfterArticle(idx + 1)
                  /\ outcome' = "dropped"
                  /\ idx' = idx + 1
                  /\ \E saved \in BOOLEAN :
                        processed_ids' =
                            IF saved THEN processed_ids \cup {new_articles[idx]}
                            ELSE processed_ids
    /\ extracted' = NoExtraction
    /\ update_check' = NoUpdateCheck
    /\ candidates' = <<>>
    /\ match_signals' = <<>>
    /\ request' = <<>>
    /\ decision' = NoneStr
    /\ detect_called' = FALSE
    /\ attempts' = 0
    /\ error' = "none"
    /\ UNCHANGED <<run, new_articles, existing_breaches, stats, db, enable_classification>>

(***************************************************************************)
(* The tries of one call of the service: a failed try is repeated after a  *)
(* backoff until MAX_RETRIES tries have failed; then the call raises.      *)
(***************************************************************************)
CallStages == {"classify", "extract", "detect"}

\* After this many failed tries the call is tried again.
CanRetry(failed) == failed < MAX_RETRIES - 1

RetryCall ==
    /\ pc \in CallStages
    /\ CanRetry(attempts)
    /\ attempts' = attempts + 1
    /\ UNCHANGED <<run, pc, new_articles, idx, existing_breaches, locals, stats, db,
                   processed_ids, outcome, enable_classification, classification, error>>

\* The failure of the last try is taken for a classification below the
\* threshold, or for a duplicate source.
CallExhausted_as_no_incident ==
    /\ pc \in CallStages
    /\ ~CanRetry(attempts)
    /\ attempts' = 0
    /\ error' = "none"
    /\ outcome' = IF pc = "detect" THEN "discarded" ELSE "dropped"
    /\ stats' = IF pc = "detect" THEN [stats EXCEPT !.duplicates_skipped = @ + 1]
                ELSE stats
    /\ idx' = idx + 1
    /\ pc' = AfterArticle(idx + 1)
    /\ processed_ids' = processed_ids \cup {new_articles[idx]}
    /\ detect_called' = (pc = "detect")
    /\ UNCHANGED <<run, new_articles, existing_breaches, extracted, candidates,
                   match_signals, request,
                   update_check, decision, db, enable_classification,
                   classification>>

\* The call is taken up again from its first try, without end.
CallExhausted_starts_over ==
    /\ pc \in CallStages
    /\ ~CanRetry(attempts)
    /\ attempts' = 0
    /\ UNCHANGED <<run, pc, new_articles, idx, existing_breaches, locals, stats, db,
                   processed_ids, outcome, enable_classification, classification, error>>

\* The last try has failed: the exception reaches the except branch of
\* main().
CallExhausted ==
    /\ pc \in CallStages
    /\ ~CanRetry(attempts)
    /\ attempts' = 0
    /\ error' = "TransientServiceError"
    /\ detect_called' = (pc = "detect")
    /\ HandleError
    /\ UNCHANGED <<existing_breaches, extracted, candidates, match_signals, request,
                   update_check,
                   decision, db, enable_classification, classification>>

(***************************************************************************)
(* The run is stopped between two articles: the loop is left at its head,  *)
(* main() does not return.  What was written and saved so far stays.       *)
(***************************************************************************)
Abort ==
    /\ pc = "extract"
    /\ pc' = "aborted"
    /\ UNCHANGED <<run, new_articles, idx, existing_breaches, locals, stats, db,
                   processed_ids, outcome, stages>>

Init ==
    /\ run = 0
    /\ enable_classification = FALSE
    /\ classification = NoClassification
    /\ attempts = 0
    /\ error = "none"
    /\ pc = "idle"
    /\ new_articles = <<>>
    /\ idx = 1
    /\ existing_breaches = <<>>
    /\ extracted = NoExtraction
    /\ candidates = <<>>
    /\ match_signals = <<>>
    /\ request = <<>>
    /\ update_check = NoUpdateCheck
    /\ decision = NoneStr
    /\ stats = ZeroStats
    /\ \E rows \in InitialBreaches : breaches = InitialTable(rows)
    /\ breach_updates = <<>>
    /\ processed_ids = {}
    /\ detect_called = FALSE
    /\ outcome = "none"

Next ==
    \/ StartRun
    \/ Extract
    \/ ExtractFails
    \/ MatchInRun
    \/ NoCandidates
    \/ FetchCandidates
    \/ DetectUpdate
    \/ DetectFails
    \/ Decide
    \/ WriteUpdate
    \/ SkipDuplicate
    \/ WriteNew
    \/ StorageFails
    \/ Abort

Spec == Init /\ [][Next]_vars

(***************************************************************************)
(* One run of main() with its three stages: the classification when it is  *)
(* enabled, and the single tries of the calls of the service.              *)
(***************************************************************************)
StartRunStages ==
    /\ run = 0
    /\ \E enable \in BOOLEAN : Run(enable)

NextStages ==
    \/ StartRunStages
    \/ Classify
    \/ RetryCall
    \/ CallExhausted
    \/ Extract
    \/ ExtractFails
    \/ MatchInRun
    \/ NoCandidates
    \/ FetchCandidates
    \/ DetectUpdate
    \/ DetectFails
    \/ Decide
    \/ WriteUpdate
    \/ SkipDuplicate
    \/ WriteNew
    \/ StorageFails

SpecStages == Init /\ [][NextStages]_vars

\* The in-run check and the fetch of the candidates come to an end.
MatchReturns == pc = "match" /\ pc' \in {"detect", "decide"}

\* main() is one sequential process: as long as a step of it is possible, a
\* step is taken.  A call of the service returns or times out, and so does
\* the matching, whose fairness is stated on pc alone.
SpecStagesFair ==
    /\ SpecStages
    /\ WF_vars(pc # "match" /\ NextStages)
    /\ WF_pc(MatchReturns)

(***************************************************************************)
(* _compute_match_signals on its own: every pair of an extraction and a    *)
(* candidate list with record counts up to MaxScale.                       *)
(***************************************************************************)
ScaleValues == {NoneInt} \cup (0..MaxScale)

VectorValues == {NoneStr, "phishing", "ransomware"}

SignalInputs == {Extraction("Acme", r, v) : r \in ScaleValues, v \in VectorValues}

\* Candidate i carries the id i, or none.
SignalCandidates ==
    UNION {{[i \in 1..n |-> BreachRow(ids[i], "Acme", rows[i][1], rows[i][2])] :
                ids \in {f \in [1..n -> {NoneId} \cup (1..n)] :
                            \A i \in 1..n : f[i] \in {NoneId, i}},
                rows \in [1..n -> ScaleValues \X {NoneStr, "phishing"}]} :
           n \in 1..MaxCandidates}

InitSignals ==
    /\ run = 0
    /\ enable_classification = FALSE
    /\ classification = NoClassification
    /\ attempts = 0
    /\ error = "none"
    /\ pc = "signals"
    /\ new_articles = <<>>
    /\ idx = 1
    /\ existing_breaches = <<>>
    /\ extracted \in SignalInputs
    /\ candidates \in SignalCandidates
    /\ match_signals = <<>>
    /\ request = <<>>
    /\ update_check = NoUpdateCheck
    /\ decision = NoneStr
    /\ stats = ZeroStats
    /\ breaches = <<>>
    /\ breach_updates = <<>>
    /\ processed_ids = {}
    /\ detect_called = FALSE
    /\ outcome = "none"

ComputeSignals ==
    /\ pc = "signals"
    /\ UNCHANGED stages
    /\ match_signals' = _compute_match_signals(extracted, candidates)
    /\ pc' = "signalled"
    /\ UNCHANGED <<run, new_articles, idx, existing_breaches, extracted, candidates,
                   request, update_check, decision, stats, db, processed_ids,
                   detect_called, outcome>>

\* The candidates as detect_update lists them with these signals.
BuildRequest ==
    /\ pc = "signalled"
    /\ UNCHANGED stages
    /\ request' = breaches_list(candidates, match_signals)
    /\ pc' = "requested"
    /\ UNCHANGED <<run, new_articles, idx, existing_breaches, extracted, candidates,
                   match_signals, update_check, decision, stats, db, processed_ids,
                   detect_called, outcome>>

NextSignals ==
    \/ ComputeSignals
    \/ BuildRequest

SpecSignals == InitSignals /\ [][NextSignals]_vars

(***************************************************************************)
(* Properties of a run.                                                    *)
(***************************************************************************)
\* Positions in table breaches of the rows written by the current run.
CreatedInRun == (Len(breaches) - stats.breaches_created + 1)..Len(breaches)

Matches(company, breach) ==
    _company_similarity(company, breach.company) >= FUZZY_MATCH_THRESHOLD

\* The article at hand has passed the in-run check and the detection.
Resolved == pc \in {"decide", "write"}

\* Some record created earlier in this run matches the article at hand.
MatchesCreated == \E i \in CreatedInRun : Matches(extracted.company, breaches[i])

\* The earliest entry of existing_breaches that matches the article at hand.
EarliestMatch ==
    existing_breaches[CHOOSE i \in 1..Len(existing_breaches) :
                          /\ Matches(extracted.company, existing_breaches[i])
                          /\ \A j \in 1..(i - 1) :
                                ~Matches(extracted.company, existing_breaches[j])]

ForcedAgainst(breach) ==
    /\ update_check = ForcedUpdate(breach)
    /\ update_check.confidence = 100
    /\ ~detect_called
    /\ pc = "write" => decision = "AppendUpdate"

C2_NoInRunDuplicates ==
    \A i, j \in CreatedInRun :
        i < j => ~Matches(breaches[j].company, breaches[i])

\* C2: a run has created two records.
C2_Witness ==
    /\ stats.breaches_created >= 2
    /\ outcome = "created"
    /\ Cardinality(CreatedInRun) >= 2

(***************************************************************************)
(* The verdicts of detect_update and what main() does with them.           *)
(***************************************************************************)
\* detect_update answered for the article at hand, which awaits its write.
Answered == pc = "write" /\ detect_called

AnswersGenuineUpdate == update_check.is_update /\ ~update_check.is_duplicate_source

AnswersDuplicateSource == update_check.is_duplicate_source

\* The write of the article at hand failed: nothing is stored, the article
\* is counted as an error.
WriteFailed ==
    /\ outcome' = "failed"
    /\ db' = db
    /\ stats' = [stats EXCEPT !.errors = @ + 1]

\* The write of the article at hand created one record and nothing else.
WroteNew ==
    /\ outcome' = "created"
    /\ Len(breaches') = Len(breaches) + 1
    /\ SubSeq(breaches', 1, Len(breaches)) = breaches
    /\ breaches'[Len(breaches')].company = extracted.company
    /\ breach_updates' = breach_updates
    /\ stats' = [stats EXCEPT !.breaches_created = @ + 1]

\* The write of the article at hand appended one update entry, keyed by
\* breach_id, and nothing else.
WroteUpdate(breach_id) ==
    /\ outcome' = "updated"
    /\ Len(breach_updates') = Len(breach_updates) + 1
    /\ SubSeq(breach_updates', 1, Len(breach_updates)) = breach_updates
    /\ breach_updates'[Len(breach_updates')].breach_id = breach_id
    /\ breach_updates'[Len(breach_updates')].source_url = new_articles[idx]
    /\ breaches' = breaches
    /\ stats' = [stats EXCEPT !.updates_created = @ + 1]

\* C3 as stated: a GENUINE_UPDATE verdict with a confidence below 0.7 ends
\* in Discard.
C3_LowConfidenceDiscards ==
    (Answered /\ AnswersGenuineUpdate
        /\ update_check.confidence < UPDATE_CONFIDENCE_THRESHOLD)
    => decision = "Discard"

\* C3, amended: a GENUINE_UPDATE verdict with a confidence below 0.7 never
\* appends an update entry, and the article is not discarded either: main()
\* falls through to CreateNew, so the write creates a new record and the
\* article is counted as created (or, the storage write failing, as an
\* error).
C3_LowConfidenceCreates ==
    [][(Answered /\ AnswersGenuineUpdate
            /\ update_check.confidence < UPDATE_CONFIDENCE_THRESHOLD)
       => /\ decision = "CreateNew"
          /\ breach_updates' = breach_updates
          /\ WroteNew \/ WriteFailed]_vars

\* C3: a record was created on a GENUINE_UPDATE verdict of confidence 0.69.
C3_Witness ==
    /\ outcome = "created"
    /\ detect_called
    /\ AnswersGenuineUpdate
    /\ update_check.confidence < UPDATE_CONFIDENCE_THRESHOLD

\* C4: a DUPLICATE_SOURCE verdict, whatever its confidence, ends in Discard:
\* the step changes neither table, and of the counters only
\* duplicates_skipped, by one.
C4_DuplicateSourceDiscards ==
    [][(Answered /\ AnswersDuplicateSource)
       => /\ decision = "Discard"
          /\ outcome' = "discarded"
          /\ db' = db
          /\ existing_breaches' = existing_breaches
          /\ stats' = [stats EXCEPT !.duplicates_skipped = @ + 1]]_vars

\* C4: an article was discarded on a DUPLICATE_SOURCE verdict.
C4_Witness ==
    /\ outcome = "discarded"
    /\ detect_called
    /\ AnswersDuplicateSource
    /\ stats.duplicates_skipped >= 1

\* C5: a GENUINE_UPDATE verdict with a confidence of 0.7 or more ends in
\* AppendUpdate: the write appends exactly one update entry, keyed by the
\* returned breach id, and creates no record; the only other way out is a
\* failed storage write, which stores nothing.
C5_ConfidentUpdateAppends ==
    [][(Answered /\ AnswersGenuineUpdate
            /\ update_check.confidence >= UPDATE_CONFIDENCE_THRESHOLD)
       => /\ decision = "AppendUpdate"
          /\ breaches' = breaches
          /\ WroteUpdate(update_check.related_breach_id) \/ WriteFailed]_vars

\* C5: an update entry was appended on a GENUINE_UPDATE verdict of
\* confidence exactly 0.7.
C5_Witness ==
    /\ outcome = "updated"
    /\ detect_called
    /\ AnswersGenuineUpdate
    /\ update_check.confidence = UPDATE_CONFIDENCE_THRESHOLD
    /\ update_check.related_breach_id \in BreachIds
    /\ breach_updates[Len(breach_updates)].breach_id = update_check.related_breach_id

Compared == {i \in 1..Len(candidates) : candidates[i].id # NoneId}

SignalOf(i) == match_signals[candidates[i].id]

\* C7: when the record count is missing on either side records_match is
\* None, never False; when the attack vector is missing on either side
\* attack_vector_match is None, never False.
C7_MissingIsNone ==
    pc = "signalled" =>
        \A i \in Compared :
            /\ candidates[i].id \in DOMAIN match_signals
            /\ (extracted.records_affected = NoneInt
                    \/ candidates[i].records_affected = NoneInt)
               => SignalOf(i).records_match = SigNone
            /\ (extracted.attack_vector = NoneStr
                    \/ candidates[i].attack_vector = NoneStr)
               => SignalOf(i).attack_vector_match = SigNone

\* C7: signals computed with the count missing on one side only and the
\* vector missing on the other side only.
C7_Witness ==
    /\ pc = "signalled"
    /\ \E i \in Compared :
          /\ extracted.records_affected = 10
          /\ candidates[i].records_affected = NoneInt
          /\ extracted.attack_vector = NoneStr
          /\ candidates[i].attack_vector = "phishing"
          /\ SignalOf(i).records_match = SigNone
          /\ SignalOf(i).attack_vector_match = SigNone

\* C8 as stated: for record counts a, b present on both sides with
\* max(a, b) > 0, records_match is True if |a - b| / max(a, b) <= 0.10 and
\* False otherwise, never None.
C8_WithinTenPercent ==
    pc = "signalled" =>
        \A i \in Compared :
            LET a == extracted.records_affected
                b == candidates[i].records_affected
            IN  (a # NoneInt /\ b # NoneInt /\ Max(a, b) > 0)
                => SignalOf(i).records_match = Bool(10 * Abs(a - b) <= Max(a, b))

(***************************************************************************)
(* Errors, under Spec.                                                     *)
(***************************************************************************)
Counted ==
    stats.breaches_created + stats.updates_created + stats.duplicates_skipped
        + stats.errors

\* The step is the except branch of main().
ErrorStep == run' = run /\ stats'.errors # stats.errors

\* C9: an error on an article does not abort the run.  The step that handles
\* it changes only the errors counter and moves the loop to the next
\* article, and the loop ends only when every article of the batch has been
\* counted.
C9_ErrorsDoNotAbort ==
    /\ [][ErrorStep
          => /\ stats' = [stats EXCEPT !.errors = @ + 1]
             /\ db' = db
             /\ processed_ids' = processed_ids
             /\ existing_breaches' = existing_breaches
             /\ new_articles' = new_articles
             /\ idx' = idx + 1
             /\ pc' = IF idx < Len(new_articles) THEN "extract" ELSE "done"]_vars
    /\ [](pc = "done" => idx = Len(new_articles) + 1 /\ Counted = Len(new_articles))

\* C9: an article was processed to its end after an earlier article of the
\* run had failed.
C9_Witness ==
    /\ stats.errors >= 1
    /\ outcome \in {"created", "updated", "discarded"}
    /\ new_articles[idx - 1] \in processed_ids

\* C10: a failed storage write counts the article as an error, not as
\* created or updated, and leaves its url out of processed_ids; a run that
\* starts later takes up every article whose url is not in processed_ids.
C10_StorageFailureRetried ==
    /\ [][(pc = "write" /\ outcome' = "failed")
          => /\ stats' = [stats EXCEPT !.errors = @ + 1]
             /\ db' = db
             /\ new_articles[idx] \notin processed_ids'
             /\ processed_ids' = processed_ids]_vars
    /\ [][run' # run
          => \A url \in Articles \ processed_ids :
                \E k \in 1..Len(new_articles') : new_articles'[k] = url]_vars

\* C10: the write of an article has failed and the article is not marked.
C10_Witness ==
    /\ outcome = "failed"
    /\ decision \in {"AppendUpdate", "CreateNew"}
    /\ stats.errors >= 1
    /\ new_articles[idx - 1] \notin processed_ids

(***************************************************************************)
(* Runs over a batch already processed, under Spec.                        *)
(***************************************************************************)
\* C11: a run started when every article of the batch is marked processed
\* takes up no article, ends at once with all counters at zero and leaves
\* both tables as they are; and a table changes only in the write of an
\* article that is not marked processed.
C11_RerunWritesNothing ==
    /\ [][(run' # run /\ Articles \subseteq processed_ids)
          => /\ new_articles' = <<>>
             /\ pc' = "done"
             /\ stats' = ZeroStats
             /\ db' = db]_vars
    /\ [][db' # db
          => /\ pc = "write"
             /\ idx \in 1..Len(new_articles)
             /\ new_articles[idx] \notin processed_ids]_vars
    /\ []((pc = "done" /\ new_articles = <<>>) => stats = ZeroStats)

\* C11: a later run over a batch that an earlier run processed to its end,
\* with records and updates in storage.
C11_Witness ==
    /\ run >= 2
    /\ pc = "done"
    /\ processed_ids = Articles
    /\ new_articles = <<>>
    /\ stats = ZeroStats
    /\ Len(breaches) >= 1
    /\ Len(breach_updates) >= 1

(***************************************************************************)
(* The classification gate, under SpecStages.                              *)
(***************************************************************************)
\* The article at hand is past the classification stage.
PastClassification == pc \in {"extract", "match", "detect", "decide", "write"}

\* The step in which classify_article returns its result.
ClassifyReturns ==
    /\ pc = "classify"
    /\ error' = "none"
    /\ pc' = "extract" \/ idx' = idx + 1

C13_DisabledSkipsClassification ==
    /\ [](~enable_classification
            => /\ pc # "classify"
               /\ classification = NoClassification
               /\ outcome # "dropped")
    /\ [][(~enable_classification' /\ (run' # run \/ idx' # idx)
            /\ idx' <= Len(new_articles'))
          => pc' = "extract"]_vars

\* C13: a run without classification has taken every article of the batch
\* through the extraction to a write.
C13_Witness ==
    /\ ~enable_classification
    /\ run = 1
    /\ pc = "done"
    /\ Len(new_articles) = NumArticles
    /\ stats.breaches_created + stats.updates_created + stats.duplicates_skipped
          = NumArticles

(***************************************************************************)
(* The text of an update entry, under Spec.                                *)
(***************************************************************************)
LastUpdate == breach_updates[Len(breach_updates)]

\* C14: the description of an appended update entry is the update_summary of
\* the verdict when it carries one, and the title of the article otherwise,
\* as for the updates forced by an in-run match; it is never the summary of
\* the extraction.
C14_UpdateText ==
    [][(pc = "write" /\ outcome' = "updated")
       => LET content == Get(update_check, "update_summary", NoneStr)
              text == breach_updates'[Len(breach_updates')].description
          IN  /\ Len(breach_updates') = Len(breach_updates) + 1
              /\ text = IF content \notin {NoneStr, ""} THEN content
                        ELSE article_title(new_articles[idx])
              /\ text # extracted.summary
              /\ ~detect_called => text = article_title(new_articles[idx])]_vars

\* C14: an update with the summary of detect_update is followed by an update
\* forced by an in-run match, which carries the title of its article.
C14_Witness ==
    /\ outcome = "updated"
    /\ ~detect_called
    /\ Len(breach_updates) >= 2
    /\ LastUpdate.description = article_title(new_articles[idx - 1])
    /\ breach_updates[Len(breach_updates) - 1].description = "Record count revised."

(***************************************************************************)
(* Validation of the extraction, under Spec.                               *)
(***************************************************************************)
\* C15: an extraction that does not pass validation ends the article in the
\* same step: it is counted as an error and neither table changes.  The
\* data handed to the matching and to the decision has always passed
\* validation, and every row of breaches has a company and an attack vector
\* that is null or of the enumeration.
C15_InvalidExtractionNotStored ==
    /\ [][(pc = "extract" /\ pc' # "aborted" /\ error' = "ValidationError")
          => /\ outcome' = "failed"
             /\ stats' = [stats EXCEPT !.errors = @ + 1]
             /\ db' = db
             /\ idx' = idx + 1
             /\ extracted' = NoExtraction]_vars
    /\ [](pc \in {"match", "detect", "decide", "write"} => validate_extraction(extracted))
    /\ [](\A i \in 1..Len(breaches) :
            /\ breaches[i].company # NoneStr
            /\ breaches[i].attack_vector \in ATTACK_VECTORS \cup {NoneStr})

\* C15: the extraction of an article failed validation, after an earlier
\* article of the run had been stored.
C15_Witness ==
    /\ outcome = "failed"
    /\ error = "ValidationError"
    /\ ~detect_called
    /\ extracted = NoExtraction
    /\ stats.errors >= 1
    /\ stats.breaches_created >= 1

(***************************************************************************)
(* The tries of a service call, under SpecStages.                          *)
(***************************************************************************)
\* C16: a service call is tried at most MAX_RETRIES = 3 times.  A try that
\* fails before the last one changes nothing but the count of the tries;
\* when the last try fails the article ends as failed and is counted as an
\* error.  An article ends as dropped only on a classification that does
\* not pass the gate, and as discarded only in the write step of a Discard
\* decision, never on a failed call.
C16_RetriesThenFailed ==
    /\ [](attempts + 1 <= MAX_RETRIES)
    /\ [][attempts' = attempts + 1
          => /\ pc \in CallStages
             /\ UNCHANGED <<pc, idx, stats, db, processed_ids, outcome>>]_vars
    /\ [][error' = "TransientServiceError" /\ idx' = idx + 1
          => /\ attempts + 1 = MAX_RETRIES
             /\ outcome' = "failed"
             /\ stats' = [stats EXCEPT !.errors = @ + 1]
             /\ db' = db]_vars
    /\ [][(pc \in CallStages /\ attempts + 1 = MAX_RETRIES)
          => (outcome' = "failed" \/ error' = "none")]_vars
    /\ [][(idx' = idx + 1 /\ outcome' = "dropped")
          => /\ pc = "classify"
             /\ classification' \in Classifications
             /\ ~is_breach_article(classification')]_vars
    /\ [][(idx' = idx + 1 /\ outcome' = "discarded")
          => pc = "write" /\ decision = "Discard"]_vars

\* C16: the third try of a call of detect_update failed and the article was
\* counted as an error.
C16_Witness ==
    /\ error = "TransientServiceError"
    /\ outcome = "failed"
    /\ detect_called
    /\ stats.errors >= 1
    /\ stats.duplicates_skipped = 0

(***************************************************************************)
(* A run stopped between two articles and taken up again, under Spec.      *)
(***************************************************************************)
\* Every row of the tables is still there after the step.
RowsKept ==
    /\ Len(breaches') >= Len(breaches)
    /\ SubSeq(breaches', 1, Len(breaches)) = breaches
    /\ Len(breach_updates') >= Len(breach_updates)
    /\ SubSeq(breach_updates', 1, Len(breach_updates)) = breach_updates

\* C17: stopping a run between two articles changes neither table, nor the
\* processed urls; nothing happens to the stopped run but the start of a new
\* one, which takes up exactly the articles whose url is not saved as
\* processed.  No step removes a row or a processed url; a step that writes
\* adds one row, for an article that is not yet processed, and saves its
\* url: so no article is written twice, and no two update entries come from
\* the same article.
C17_AbortAndResume ==
    /\ [][pc' = "aborted"
          => /\ pc = "extract"
             /\ db' = db
             /\ processed_ids' = processed_ids
             /\ stats' = stats]_vars
    /\ [][pc = "aborted"
          => /\ run' = run + 1
             /\ db' = db
             /\ processed_ids' = processed_ids
             /\ \A url \in Articles :
                   (url \notin processed_ids)
                       <=> (\E k \in 1..Len(new_articles') : new_articles'[k] = url)]_vars
    /\ [][RowsKept /\ processed_ids \subseteq processed_ids']_vars
    /\ [][db' # db
          => /\ new_articles[idx] \notin processed_ids
             /\ new_articles[idx] \in processed_ids'
             /\ Len(breaches') + Len(breach_updates')
                   = Len(breaches) + Len(breach_updates) + 1]_vars
    /\ [](\A i, j \in 1..Len(breach_updates) :
            breach_updates[i].source_url = breach_updates[j].source_url => i = j)

\* C17: a run was stopped after its first article had created a record and
\* before the second was taken up.
C17_Witness ==
    /\ pc = "aborted"
    /\ idx = 2
    /\ idx <= Len(new_articles)
    /\ outcome = "created"
    /\ new_articles[1] \in processed_ids
    /\ new_articles[2] \notin processed_ids
    /\ Len(breaches) >= 1

(***************************************************************************)
(* The stages of an article, under SpecStages.  Received is the head of    *)
(* the loop (classify, or extract without classification), Classified is   *)
(* extract with classification, Extracted is match, Matched is detect or   *)
(* decide, Decided is write.                                               *)
(***************************************************************************)
\* The stages that may follow a stage for the same article.
StagesAfter(stage) ==
    CASE stage = "classify" -> {"extract"}
      [] stage = "extract" -> {"match"}
      [] stage = "match" -> {"detect", "decide"}
      [] stage = "detect" -> {"decide"}
      [] stage = "decide" -> {"write"}
      [] OTHER -> {}

\* The ends an article may come to at a stage.
EndsAt(stage) ==
    CASE stage = "classify" -> {"dropped", "failed"}
      [] stage = "extract" -> {"failed"}
      [] stage = "detect" -> {"failed"}
      [] stage = "write" -> {"created", "updated", "discarded", "failed"}
      [] OTHER -> {}

\* C18: an article passes the stages in their order only, and ends once, in
\* one of dropped, failed, created, updated, discarded; a table is written
\* only in the step that takes a decided article to created or updated,
\* after which the loop is at the next article.
C18_StageOrder ==
    /\ [][(run' = run /\ idx' = idx /\ pc' # pc) => pc' \in StagesAfter(pc)]_vars
    /\ [][(run' = run /\ idx' = idx) => outcome' \in {outcome, "none"}]_vars
    /\ [][run' = run => idx' \in {idx, idx + 1}]_vars
    /\ [][(run' = run /\ idx' = idx + 1)
          => /\ outcome' \in EndsAt(pc)
             /\ pc' \in {"classify", "extract", "done"}]_vars
    /\ [][db' # db
          => /\ pc = "write"
             /\ idx' = idx + 1
             /\ outcome' \in {"created", "updated"}]_vars

\* C18: an article went through the classification, the extraction, the
\* matching, the detection and the decision to an update.
C18_Witness ==
    /\ enable_classification
    /\ classification.confidence >= CLASSIFICATION_CONFIDENCE_THRESHOLD
    /\ extracted # NoExtraction
    /\ detect_called
    /\ decision = "AppendUpdate"
    /\ outcome = "updated"

(***************************************************************************)
(* find_in_run_duplicate alone: a company is looked up in a list of        *)
(* breaches in the order of their registration, the latest last.          *)
(***************************************************************************)
RegisteredLists ==
    UNION {{[i \in 1..n |-> BreachRow(i, names[i], NoneInt, NoneStr)] :
                names \in [1..n -> Names]} : n \in 0..MaxRegistered}

InitMatch ==
    /\ run = 0
    /\ enable_classification = FALSE
    /\ classification = NoClassification
    /\ attempts = 0
    /\ error = "none"
    /\ pc = "match"
    /\ new_articles = <<>>
    /\ idx = 1
    /\ existing_breaches \in RegisteredLists
    /\ extracted \in {Extraction(name, NoneInt, NoneStr) : name \in Names}
    /\ candidates = <<>>
    /\ match_signals = <<>>
    /\ request = <<>>
    /\ update_check = NoUpdateCheck
    /\ decision = NoneStr
    /\ stats = ZeroStats
    /\ breaches = <<>>
    /\ breach_updates = <<>>
    /\ processed_ids = {}
    /\ detect_called = FALSE
    /\ outcome = "none"

NextMatch ==
    \/ MatchInRun
    \/ NoCandidates

SpecMatch == InitMatch /\ [][NextMatch]_vars

\* The similarity of the company looked up to the i-th registered breach.
Score(i) == _company_similarity(extracted.company, existing_breaches[i].company)

\* The registered breaches that reach the threshold, and the best of them.
Hits == {i \in 1..Len(existing_breaches) : Score(i) >= FUZZY_MATCH_THRESHOLD}

BestHits == {i \in Hits : \A j \in Hits : Score(j) <= Score(i)}

\* The lookup has returned the i-th registered breach.
Returned(i) ==
    /\ update_check.is_update
    /\ update_check.related_breach_id = existing_breaches[i].id

\* C19: after the lookup, None was returned when no registered breach
\* reaches the threshold, and otherwise one of the breaches that reach it
\* with the highest similarity.
C19_ReturnsBestMatch ==
    pc = "decide"
        => IF Hits = {} THEN update_check = NewBreachCheck
           ELSE \E i \in BestHits : Returned(i)

\* C20: after the lookup, when two or more registered breaches share the
\* highest similarity at or above the threshold, the one registered last
\* was returned.
C20_TieReturnsMostRecent ==
    (pc = "decide" /\ Cardinality(BestHits) >= 2)
        => Returned(CHOOSE i \in BestHits : \A j \in BestHits : j <= i)

(***************************************************************************)
(* What the list scanned by find_in_run_duplicate holds, under Spec.       *)
(***************************************************************************)
\* The breaches created and the breaches updated so far by the current run:
\* the targets of the last rows of the two tables, as many as the run has
\* counted.
CreatedIds == {breaches[i].id : i \in CreatedInRun}

UpdatedIds ==
    {breach_updates[i].breach_id :
        i \in (Len(breach_updates) - stats.updates_created + 1)..Len(breach_updates)}

\* The update of the article was forced by find_in_run_duplicate.
ForcedByInRunMatch == pc = "decide" /\ ~detect_called /\ update_check.is_update

\* C21: the list scanned by find_in_run_duplicate holds only breaches that
\* the current run has created or updated, so it is empty when the run
\* starts, and an update forced by the scan has such a breach for target.
C21_IndexHoldsRunRecordsOnly ==
    /\ \A i \in 1..Len(existing_breaches) :
          existing_breaches[i].id \in CreatedIds \cup UpdatedIds
    /\ ForcedByInRunMatch
          => update_check.related_breach_id \in CreatedIds \cup UpdatedIds

(***************************************************************************)
(* The threshold of find_in_run_duplicate, under SpecMatch.                *)
(***************************************************************************)
\* The lookup has forced an update: the update_check of the in-run branch.
Forced ==
    /\ update_check.is_update
    /\ update_check.confidence = 100
    /\ "is_duplicate_source" \notin DOMAIN update_check

\* C22: after the lookup, an update is forced exactly when some registered
\* breach has a similarity of at least 0.85 to the company looked up, 0.85
\* included; otherwise None was returned and the article goes on as one
\* that no in-run match has forced.
C22_MatchIffAtThreshold ==
    pc = "decide"
        => /\ Forced <=> \E i \in 1..Len(existing_breaches) :
                            Score(i) >= FUZZY_MATCH_THRESHOLD
           /\ (\A i \in 1..Len(existing_breaches) : Score(i) < FUZZY_MATCH_THRESHOLD)
                 => update_check = NewBreachCheck

\* C22: a company was matched to a registered breach with a similarity of
\* exactly 0.85, the only one to reach the threshold.
C22_Witness ==
    /\ pc = "decide"
    /\ Forced
    /\ Len(existing_breaches) = 2
    /\ Score(1) < FUZZY_MATCH_THRESHOLD
    /\ Score(2) = FUZZY_MATCH_THRESHOLD
    /\ Returned(2)

(***************************************************************************)
(* The registration of a new breach, under Spec.                           *)
(***************************************************************************)
\* C23: within a run the list of existing breaches changes only in the
\* step that creates a breach in storage, by the row just created, and the
\* loop is then at the next article; every creation is registered so; a
\* write that fails changes neither the table nor the list; so every entry
\* of the list is a row of table breaches.
C23_RegisteredAfterCreation ==
    /\ [][(run' = run /\ existing_breaches' # existing_breaches)
          => /\ pc = "write"
             /\ decision = "CreateNew"
             /\ outcome' = "created"
             /\ idx' = idx + 1]_vars
    /\ [][(pc = "write" /\ outcome' = "created")
          => /\ Len(breaches') = Len(breaches) + 1
             /\ existing_breaches'
                   = Append(existing_breaches, breaches'[Len(breaches')])]_vars
    /\ [][(pc = "write" /\ outcome' = "failed")
          => /\ breaches' = breaches
             /\ existing_breaches' = existing_breaches]_vars
    /\ [](\A i \in 1..Len(existing_breaches) :
            \E j \in 1..Len(breaches) : breaches[j] = existing_breaches[i])

\* C23: after a first article had created a breach, the creation of a
\* second one failed in storage: the list holds the first only.
C23_Witness ==
    /\ outcome = "failed"
    /\ error = "StorageError"
    /\ decision = "CreateNew"
    /\ stats.breaches_created = 1
    /\ Len(existing_breaches) = Len(breaches)
    /\ existing_breaches[Len(existing_breaches)] = breaches[Len(breaches)]

(***************************************************************************)
(* The decision and the structural signals, under Spec.                    *)
(***************************************************************************)
\* The label of a response of detect_update.
LabelOf(uc) ==
    IF uc.is_duplicate_source THEN "DUPLICATE_SOURCE"
    ELSE IF uc.is_update THEN "GENUINE_UPDATE"
    ELSE "NEW_BREACH"

\* The decision main() takes on a label and a confidence.
DecisionOf(label, confidence) ==
    CASE label = "DUPLICATE_SOURCE" -> "Discard"
      [] label = "GENUINE_UPDATE" ->
            IF confidence >= UPDATE_CONFIDENCE_THRESHOLD THEN "AppendUpdate"
            ELSE "CreateNew"
      [] OTHER -> "CreateNew"

\* C24: the decision on an answer of detect_update is a function of its
\* label and its confidence, whatever the signals of the candidates were;
\* GENUINE_UPDATE with a confidence of 0.7 or more gives AppendUpdate also
\* when both signals of the related candidate are True.
C24_DecisionIgnoresSignals ==
    Answered
        => /\ decision = DecisionOf(LabelOf(update_check), update_check.confidence)
           /\ (/\ LabelOf(update_check) = "GENUINE_UPDATE"
               /\ update_check.confidence >= UPDATE_CONFIDENCE_THRESHOLD
               /\ BothMatch(match_signals, update_check.related_breach_id))
                 => decision = "AppendUpdate"

\* C24: an update was appended to a candidate whose records and attack
\* vector both matched the extraction.
C24_Witness ==
    /\ outcome = "updated"
    /\ detect_called
    /\ decision = "AppendUpdate"
    /\ BothMatch(match_signals, update_check.related_breach_id)
    /\ LastUpdate.breach_id = update_check.related_breach_id

(***************************************************************************)
(* A response that is both an update and a duplicate source, under Spec.   *)
(***************************************************************************)
\* C26: a response of detect_update with is_update and is_duplicate_source
\* both set, whatever its confidence, is discarded: the write step appends no
\* update entry and creates no record.
C26_AmbiguousDiscards ==
    [][(Answered /\ update_check.is_update /\ update_check.is_duplicate_source)
       => /\ decision = "Discard"
          /\ breach_updates' = breach_updates
          /\ breaches' = breaches
          /\ outcome' = "discarded"]_vars

\* C26: an article was discarded on a response with both flags set and a
\* confidence of 0.7.
C26_Witness ==
    /\ outcome = "discarded"
    /\ detect_called
    /\ update_check.is_update
    /\ update_check.is_duplicate_source
    /\ update_check.confidence >= UPDATE_CONFIDENCE_THRESHOLD
    /\ stats.updates_created = 0

(***************************************************************************)
(* What an update does to the breach it is appended to, under Spec.        *)
(***************************************************************************)
\* C27: the step that appends an update entry adds one row to
\* breach_updates, keyed by the related breach id, and leaves table breaches
\* and the list of existing breaches as they are; no step at all changes
\* the company, the records affected or the attack vector of a stored
\* breach; so the candidates that detect_update is given carry the values
\* of the stored rows.
C27_UpdateLeavesRecord ==
    /\ [][(pc = "write" /\ outcome' = "updated")
          => /\ breaches' = breaches
             /\ existing_breaches' = existing_breaches
             /\ Len(breach_updates') = Len(breach_updates) + 1
             /\ breach_updates'[Len(breach_updates')].breach_id
                   = update_check.related_breach_id]_vars
    /\ [][/\ Len(breaches') >= Len(breaches)
          /\ \A i \in 1..Len(breaches) :
                /\ breaches'[i].id = breaches[i].id
                /\ breaches'[i].company = breaches[i].company
                /\ breaches'[i].records_affected = breaches[i].records_affected
                /\ breaches'[i].attack_vector = breaches[i].attack_vector]_vars
    /\ [](\A i \in 1..Len(candidates) :
            \E j \in 1..Len(breaches) : breaches[j] = candidates[i])

\* C27: an article is compared with a breach that has an update entry
\* already, and whose figures differ from those of the article that
\* updated it.
C27_Witness ==
    /\ pc = "detect"
    /\ Len(candidates) >= 1
    /\ \E k \in 1..Len(breach_updates) : breach_updates[k].breach_id = candidates[1].id
    /\ candidates[1].id \in DOMAIN match_signals
    /\ candidates[1].records_affected # 10

(***************************************************************************)
(* The target of an update entry, under Spec.                              *)
(***************************************************************************)
CandidateIds == {candidates[i].id : i \in 1..Len(candidates)} \ {NoneId}

\* C28: every update entry has the id of a stored breach for target, and
\* an update entry appended on an answer of detect_update has for target one
\* of the candidates that detect_update was given.
C28_UpdatesTargetCandidates ==
    /\ \A k \in 1..Len(breach_updates) : breach_updates[k].breach_id \in BreachIds
    /\ (outcome = "updated" /\ detect_called)
          => update_check.related_breach_id \in CandidateIds

(***************************************************************************)
(* The annotations of the request, under SpecSignals.                      *)
(***************************************************************************)
\* The signal parts of the i-th candidate of the request say this.
Says(i, text) ==
    \E k \in 1..Len(request[i].signal_parts) : request[i].signal_parts[k] = text

\* C25: the request lists every candidate; a candidate has the high prior
\* for DUPLICATE_SOURCE exactly when its records signal and its attack
\* vector signal are both True; a signal is given as MATCH exactly when it
\* is True and as DIFFER exactly when it is False; a candidate without
\* signals has no annotation.
C25_HighPriorIffBothMatch ==
    pc = "requested"
        => /\ Len(request) = Len(candidates)
           /\ \A i \in 1..Len(request) :
                 IF candidates[i].id \in DOMAIN match_signals
                 THEN /\ request[i].high_prior
                            <=> /\ SignalOf(i).records_match = SigTrue
                                /\ SignalOf(i).attack_vector_match = SigTrue
                      /\ Says(i, "records MATCH") <=> SignalOf(i).records_match = SigTrue
                      /\ Says(i, "records DIFFER") <=> SignalOf(i).records_match = SigFalse
                      /\ Says(i, "attack_vector MATCH")
                            <=> SignalOf(i).attack_vector_match = SigTrue
                      /\ Says(i, "attack_vector DIFFER")
                            <=> SignalOf(i).attack_vector_match = SigFalse
                 ELSE /\ ~request[i].high_prior
                      /\ request[i].signal_parts = <<>>

\* C25: a candidate whose records match and whose attack vector differs is
\* listed with both annotations and without the high prior.
C25_Witness ==
    /\ pc = "requested"
    /\ Len(request) >= 1
    /\ Says(1, "records MATCH")
    /\ Says(1, "attack_vector DIFFER")
    /\ ~request[1].high_prior

(***************************************************************************)
(* The counters of a run, under SpecStages.                                *)
(***************************************************************************)
\* The counter that stands for an end of an article.
CounterOf(end) ==
    CASE end = "created" -> "breaches_created"
      [] end = "updated" -> "updates_created"
      [] end = "discarded" -> "duplicates_skipped"
      [] end = "failed" -> "errors"

\* C29: within a run, the step that ends an article adds one to exactly the
\* counter of its end, or ends it as dropped by the classification and
\* leaves the counters; no other step changes a counter; breaches_created
\* grows with the rows of breaches and updates_created with the rows of
\* breach_updates.  So the counters add up to the articles handled so far
\* less those dropped, and to all of them when the classification is off.
C29_CounterConservation ==
    /\ [][run' = run
          => IF idx' = idx + 1
             THEN \/ outcome' = "dropped" /\ stats' = stats
                  \/ /\ outcome' \in {"created", "updated", "discarded", "failed"}
                     /\ stats' = [stats EXCEPT ![CounterOf(outcome')] = @ + 1]
             ELSE stats' = stats]_vars
    /\ [][run' = run
          => /\ stats'.breaches_created - stats.breaches_created
                   = Len(breaches') - Len(breaches)
             /\ stats'.updates_created - stats.updates_created
                   = Len(breach_updates') - Len(breach_updates)]_vars
    /\ [](/\ Counted <= idx - 1
          /\ ~enable_classification => Counted = idx - 1
          /\ pc = "done" => idx = Len(new_articles) + 1)

\* C29: a run has ended in which one article created a breach and the
\* other was dropped by the classification.
C29_Witness ==
    /\ pc = "done"
    /\ enable_classification
    /\ outcome = "dropped"
    /\ stats.breaches_created = 1
    /\ Len(breaches) >= 1
    /\ Counted = Len(new_articles) - 1

(***************************************************************************)
(* The end of a run, under SpecStagesFair.                                 *)
(***************************************************************************)
\* C30: the run comes to its end with every article behind it; each
\* article that is taken up is left for the next; a call never has more
\* than MAX_RETRIES tries, and the failure of the last one takes the loop to
\* the next article.
C30_RunTerminates ==
    /\ <>(pc = "done" /\ idx = Len(new_articles) + 1)
    /\ \A k \in 1..NumArticles :
          (pc \notin {"idle", "done"} /\ idx = k) ~> (idx = k + 1 /\ outcome # "none")
    /\ [](attempts < MAX_RETRIES)
    /\ [][(pc \in CallStages /\ attempts = MAX_RETRIES - 1 /\ attempts' = 0
              /\ error' = "TransientServiceError")
          => /\ idx' = idx + 1
             /\ pc' = AfterArticle(idx + 1)]_vars

\* C30: a run has ended whose last article failed on the last try of a
\* call, after an earlier article had created a breach.
C30_Witness ==
    /\ pc = "done"
    /\ Len(new_articles) = NumArticles
    /\ idx = Len(new_articles) + 1
    /\ outcome = "failed"
    /\ error = "TransientServiceError"
    /\ stats.breaches_created >= 1

=============================================================================
